---- MODULE Spec2Model ----
(***************************************************************************)
(* ICE peer of docker-examples/rfc5389-rfc8445-nat-traversal/scripts/      *)
(* ice-peer.py: candidate pairing, pair priority, the connectivity-check   *)
(* batch and nomination.                                                   *)
(*                                                                         *)
(* Python integers are unbounded and a pair priority is about 2^63, so     *)
(* priorities are kept as little-endian sequences of five 16-bit limbs     *)
(* (80 bits), on which the arithmetic of the code is carried out exactly.  *)
(***************************************************************************)
EXTENDS Integers, Sequences, FiniteSets, TLC

\* ------------------------------------------------------------------ bounds
MaxLocal == 3       \* longest local_candidates list
MaxRemote == 2      \* longest remote_candidates list
MaxDatagrams == 2   \* datagrams reaching a probe socket within its wait
MaxPairingLen == 2  \* longest candidate list handed to the pairing formula
MaxPrefStep == 8    \* local preferences 65535 - i * 1000 tried, i up to this
MaxComponent == 8   \* highest component id tried
MaxInbox == 2       \* messages the websocket holds unread at one time
MaxConns == 2       \* websocket connections the signaling server accepts
MaxSends == 2       \* ice_candidate messages the connections send

\* ------------------------------------------------- exact integer arithmetic
Base == 2^16
Limbs == 1..5

\* the integer n (0 <= n < 2^31) as limbs
Big(n) == <<n % Base, (n \div Base) % Base, 0, 0, 0>>

\* a 32-bit value given by its high and low 16-bit halves
Big32(hi, lo) == <<lo, hi, 0, 0, 0>>

RECURSIVE LessFrom(_, _, _)
LessFrom(a, b, k) ==
    IF k = 0 THEN FALSE
    ELSE IF a[k] # b[k] THEN a[k] < b[k]
    ELSE LessFrom(a, b, k - 1)

\* a < b
BigLess(a, b) == LessFrom(a, b, 5)

RECURSIVE AddFrom(_, _, _, _)
AddFrom(a, b, k, carry) ==
    IF k > 5 THEN <<>>
    ELSE LET s == a[k] + b[k] + carry
         IN  <<s % Base>> \o AddFrom(a, b, k + 1, s \div Base)

\* a + b
BigAdd(a, b) == AddFrom(a, b, 1, 0)

\* (1 << 32) * a: two limbs up (a < 2^48)
MulPow32(a) == <<0, 0, a[1], a[2], a[3]>>

\* the value of a modulo m (m < 2^15), by Horner's rule from the top limb
RECURSIVE ResidueFrom(_, _, _)
ResidueFrom(a, m, k) ==
    IF k > 5 THEN 0
    ELSE (ResidueFrom(a, m, k + 1) * (Base % m) + a[k]) % m

Residue(a, m) == ResidueFrom(a, m, 1)

\* Python's min and max of two values (the first one on equality)
PyMin(a, b) == IF BigLess(b, a) THEN b ELSE a
PyMax(a, b) == IF BigLess(a, b) THEN b ELSE a

\* ------------------------------------------------------------ candidates
HOST == "host"
SRFLX == "srflx"
PRFLX == "prflx"
RELAY == "relay"

FROZEN == "frozen"
WAITING == "waiting"
IN_PROGRESS == "in_progress"
SUCCEEDED == "succeeded"
FAILED == "failed"

type_preferences ==
    [t \in {HOST, PRFLX, SRFLX, RELAY} |->
        CASE t = HOST -> 126
          [] t = PRFLX -> 110
          [] t = SRFLX -> 100
          [] t = RELAY -> 0]

\* calculate_priority with the type preference shifted by 16 bits, not 24
calculate_priority_Shift16(candidate_type, local_pref, component) ==
    type_preferences[candidate_type] * 2^16 + local_pref * 2^8 + (256 - component)

\* (type_pref << 24) + (local_pref << 8) + (256 - component)
calculate_priority(candidate_type, local_pref, component) ==
    type_preferences[candidate_type] * 2^24 + local_pref * 2^8 + (256 - component)

ICECandidate(type, transport, priority, address, port) ==
    [type |-> type, transport |-> transport, priority |-> priority,
     address |-> address, port |-> port]

\* gather_host_candidates: the HOST candidate of interface i (0-based), with
\* local preference 65535 - i * 1000
HostCandidate(i) ==
    ICECandidate(HOST, "udp", Big(calculate_priority(HOST, 65535 - i * 1000, 1)),
                 "192.168.1.5", 50000 + i)

\* gather_server_reflexive_candidates: the address the STUN server saw
SrflxCandidate ==
    ICECandidate(SRFLX, "udp", Big(calculate_priority(SRFLX, 65535, 1)),
                 "203.0.113.5", 40000)

\* local_candidates after gather_candidates: the HOST candidates of the first
\* k interfaces, with or without the server-reflexive one, sorted by priority
\* (every HOST priority is above the SRFLX one)
LocalLists ==
    {[i \in 1..k |-> HostCandidate(i - 1)] : k \in 0..MaxLocal}
    \cup {[i \in 1..(k + 1) |-> IF i <= k THEN HostCandidate(i - 1) ELSE SrflxCandidate] :
            k \in 0..(MaxLocal - 1)}

\* candidates as ICECandidate.from_dict builds them from the peer's messages:
\* transport and priority are whatever the peer sent
RemoteUniverse ==
    {ICECandidate(HOST, "udp", Big(calculate_priority(HOST, 65535, 1)),
                  "192.168.1.6", 51000),
     ICECandidate(SRFLX, "udp", Big(calculate_priority(SRFLX, 65535, 1)),
                  "203.0.113.6", 41000),
     ICECandidate(RELAY, "tcp", Big(calculate_priority(RELAY, 65535, 1)),
                  "198.51.100.9", 3478),
     ICECandidate(PRFLX, "udp", Big32(65535, 65535),
                  "203.0.113.7", 42000)}

\* remote_candidates: distinct candidates in the order they arrived
RemoteLists ==
    {s \in UNION {[1..n -> RemoteUniverse] : n \in 0..MaxRemote} :
        \A i, j \in 1..Len(s) : i # j => s[i] # s[j]}

\* ------------------------------------------------------------------ pairs
\* local and remote are references into the two candidate lists
CandidatePair(l, r, priority) ==
    [local |-> l, remote |-> r, priority |-> priority,
     state |-> FROZEN, nominated |-> FALSE]

\* PairPriority with G and D taken the wrong way round
PairPriority_Swapped(lp, rp) ==
    LET G == PyMax(lp, rp)
        D == PyMin(lp, rp)
    IN  BigAdd(BigAdd(MulPow32(G), BigAdd(D, D)),
               IF BigLess(rp, lp) THEN Big(1) ELSE Big(0))

\* PairPriority without the 2 * D term
PairPriority_MinOnly(lp, rp) ==
    LET G == PyMin(lp, rp)
    IN  BigAdd(MulPow32(G), IF BigLess(rp, lp) THEN Big(1) ELSE Big(0))

\* PairPriority without the tie-break term
PairPriority_NoTieBreak(lp, rp) ==
    LET G == PyMin(lp, rp)
        D == PyMax(lp, rp)
    IN  BigAdd(MulPow32(G), BigAdd(D, D))

\* PairPriority with G shifted by 16 bits, not 32
PairPriority_Shift16(lp, rp) ==
    LET G == PyMin(lp, rp)
        D == PyMax(lp, rp)
    IN  BigAdd(BigAdd(<<0, G[1], G[2], G[3], G[4]>>, BigAdd(D, D)),
               IF BigLess(rp, lp) THEN Big(1) ELSE Big(0))

\* (1 << 32) * G + 2 * D + (1 if local.priority > remote.priority else 0)
PairPriority(lp, rp) ==
    LET G == PyMin(lp, rp)
        D == PyMax(lp, rp)
    IN  BigAdd(BigAdd(MulPow32(G), BigAdd(D, D)),
               IF BigLess(rp, lp) THEN Big(1) ELSE Big(0))

\* PairLoop without the transport test
RECURSIVE PairLoop_AnyTransport(_, _, _, _)
PairLoop_AnyTransport(locals, remotes, i, j) ==
    IF i > Len(locals) THEN <<>>
    ELSE IF j > Len(remotes) THEN PairLoop_AnyTransport(locals, remotes, i + 1, 1)
    ELSE <<CandidatePair(i, j, PairPriority(locals[i].priority, remotes[j].priority))>>
         \o PairLoop_AnyTransport(locals, remotes, i, j + 1)

\* the nested loops of create_candidate_pairs: local-major, remote-minor
RECURSIVE PairLoop(_, _, _, _)
PairLoop(locals, remotes, i, j) ==
    IF i > Len(locals) THEN <<>>
    ELSE IF j > Len(remotes) THEN PairLoop(locals, remotes, i + 1, 1)
    ELSE (IF locals[i].transport = remotes[j].transport
          THEN <<CandidatePair(i, j, PairPriority(locals[i].priority,
                                                  remotes[j].priority))>>
          ELSE <<>>)
         \o PairLoop(locals, remotes, i, j + 1)

\* pairs.sort(key=priority, reverse=True): stable, highest first
RECURSIVE InsertDesc(_, _)
InsertDesc(s, p) ==
    IF s = <<>> THEN <<p>>
    ELSE IF BigLess(Head(s).priority, p.priority) THEN <<p>> \o s
    ELSE <<Head(s)>> \o InsertDesc(Tail(s), p)

\* the list left in the order it was built in
SortDesc_None(s) == s

RECURSIVE SortDesc(_)
SortDesc(s) ==
    IF s = <<>> THEN <<>>
    ELSE InsertDesc(SortDesc(SubSeq(s, 1, Len(s) - 1)), s[Len(s)])


\* ---------------------------------------------------------------- session
VARIABLES
    local_candidates,   \* ICEPeer.local_candidates
    remote_candidates,  \* ICEPeer.remote_candidates
    candidate_pairs,    \* ICEPeer.candidate_pairs
    nominated_pair,     \* ICEPeer.nominated_pair: a reference to a pair object
    fresh,              \* the running or last batch began on a fresh pair set
    pc,                 \* where the caller of run_connectivity_checks stands
    check_tasks,        \* the probe coroutines handed to asyncio.gather
    started,            \* how many of them the event loop has started
    probe,              \* the probe task that ran last in the running batch:
                        \* its pair, whether it returned, what reached it
    ret,                \* what the last run_connectivity_checks returned
    est,                \* where a call of establish_connection stands
    est_ret,            \* what establish_connection returned
    est_err,            \* the step of establish_connection that raised
    genv,               \* what gathering met: interfaces, binds, STUN reply
    sent,               \* the messages sent over the websocket, in order
    inbox,              \* messages the websocket holds and recv() has not read
    timed_out,          \* the wait for remote candidates elapsed
    call,               \* one application of a pure function: inputs, output
    loop,               \* the asyncio event loop when two tasks run batches:
                        \* its ready queue, the running probe, each task's batch
    server              \* the signaling server: its connections and peers map

flow_vars == <<est, est_ret, est_err, genv, sent, inbox, timed_out, call,
               loop, server>>

vars == <<local_candidates, remote_candidates, candidate_pairs, nominated_pair,
          fresh, pc, check_tasks, started, probe, ret,
          est, est_ret, est_err, genv, sent, inbox, timed_out, call,
          loop, server>>

\* nominated_pair is None, candidate_pairs[idx], or a pair object of an
\* earlier candidate_pairs list that create_candidate_pairs has since replaced
NoPair == [kind |-> "none", idx |-> 0]
PairRef(i) == [kind |-> "pair", idx |-> i]
OldPair == [kind |-> "old", idx |-> 0]
NoProbe == [pair |-> 0, done |-> TRUE, net |-> [err |-> "none", arrivals |-> <<>>]]
NoRet == "none"
\* what the STUN socket yields within its 5 s: nothing, or one datagram of
\* some length, with or without the request's transaction id, with no
\* XOR-MAPPED-ADDRESS attribute, one shorter than 8 bytes, or a whole one
StunReply(kind, length, tx_ok, xma) ==
    [kind |-> kind, length |-> length, tx_ok |-> tx_ok, xma |-> xma]
Unasked == StunReply("unasked", 0, FALSE, "absent")
NoEnv == [interfaces |-> <<>>, unbindable |-> {}, reply |-> Unasked]
NoCall == [fn |-> "none"]
NoLoop == [queue |-> <<>>, running |-> <<>>, batch |-> <<>>]
NoServer == [conns |-> <<>>, peers |-> <<>>, relayed |-> <<>>]

\* no establish_connection call, no function application
FlowIdle ==
    /\ est = "idle"
    /\ est_ret = NoRet
    /\ est_err = "none"
    /\ genv = NoEnv
    /\ sent = <<>>
    /\ inbox = <<>>
    /\ timed_out = FALSE
    /\ call = NoCall
    /\ loop = NoLoop
    /\ server = NoServer

Idx == 1..Len(candidate_pairs)
Local(p) == local_candidates[p.local]
Remote(p) == remote_candidates[p.remote]

\* ICEPeer.__init__, with the two candidate lists as gathering and the
\* exchange (or a caller) filled them
Init ==
    /\ local_candidates \in LocalLists
    /\ remote_candidates \in RemoteLists
    /\ candidate_pairs = <<>>
    /\ nominated_pair = NoPair
    /\ fresh = FALSE
    /\ pc = "new"
    /\ check_tasks = <<>>
    /\ started = 0
    /\ probe = NoProbe
    /\ ret = NoRet
    /\ FlowIdle

\* create_candidate_pairs: build, sort, replace self.candidate_pairs
create_candidate_pairs ==
    /\ pc \in {"new", "paired", "done"}
    /\ candidate_pairs' = SortDesc(PairLoop(local_candidates, remote_candidates, 1, 1))
    /\ nominated_pair' = IF nominated_pair = NoPair THEN NoPair ELSE OldPair
    /\ fresh' = FALSE
    /\ pc' = "paired"
    /\ check_tasks' = <<>>
    /\ started' = 0
    /\ probe' = NoProbe
    /\ ret' = NoRet
    /\ UNCHANGED <<local_candidates, remote_candidates>>
    /\ UNCHANGED flow_vars

\* for pair in self.candidate_pairs[:3]: pair.state = WAITING
UnfreezeCount == 3

\* Unfreeze without the [:3] slice
Unfreeze_All(pairs) ==
    [i \in 1..Len(pairs) |-> [pairs[i] EXCEPT !.state = WAITING]]

Unfreeze(pairs) ==
    [i \in 1..Len(pairs) |->
        IF i <= UnfreezeCount THEN [pairs[i] EXCEPT !.state = WAITING] ELSE pairs[i]]

\* the pairs a probe coroutine is created for, in list order
RECURSIVE WaitingFrom(_, _)
WaitingFrom(pairs, i) ==
    IF i > Len(pairs) THEN <<>>
    ELSE (IF pairs[i].state = WAITING THEN <<i>> ELSE <<>>) \o WaitingFrom(pairs, i + 1)

\* run_connectivity_checks up to its await: unfreeze, build check_tasks,
\* hand them to asyncio.gather (no await at all when there are none)
RunStart ==
    /\ pc \in {"new", "paired", "done"}
    /\ candidate_pairs' = Unfreeze(candidate_pairs)
    /\ check_tasks' = WaitingFrom(candidate_pairs', 1)
    /\ started' = 0
    /\ fresh' = \A i \in Idx : /\ candidate_pairs[i].state = FROZEN
                               /\ ~candidate_pairs[i].nominated
    /\ probe' = NoProbe
    /\ ret' = NoRet
    /\ pc' = IF check_tasks' # <<>> THEN "gather" ELSE "scan"
    /\ UNCHANGED <<local_candidates, remote_candidates, nominated_pair>>
    /\ UNCHANGED flow_vars

\* the event loop starts the next probe task; perform_connectivity_check has
\* no await, so a task runs from its first line to its return before any
\* other task or callback runs
\* a probe that also flags the pair it found reachable
SetState_AlsoFlag(pairs, i, state) ==
    [pairs EXCEPT ![i].state = state,
                  ![i].nominated = (state = SUCCEEDED) \/ pairs[i].nominated]

\* pair.state = ... inside perform_connectivity_check
SetState(pairs, i, state) == [pairs EXCEPT ![i].state = state]

ProbeBegin ==
    /\ pc = "gather"
    /\ probe.done
    /\ started < Len(check_tasks)
    /\ LET i == check_tasks[started + 1]
       IN  /\ candidate_pairs' = SetState(candidate_pairs, i, IN_PROGRESS)
           /\ probe' = [pair |-> i, done |-> FALSE, net |-> NoProbe.net]
    /\ started' = started + 1
    /\ UNCHANGED <<local_candidates, remote_candidates, nominated_pair, fresh,
                   pc, check_tasks, ret>>
    /\ UNCHANGED flow_vars

\* what the environment does to one probe: an error raised by socket(), bind()
\* or sendto(), else the sources of the datagrams that reach the socket within
\* the 2 s of settimeout, in order of arrival
Endpoint(c) == <<c.address, c.port>>
OtherPort(c) == <<c.address, c.port + 1>>

RECURSIVE SeqsUpTo(_, _)
SeqsUpTo(S, n) ==
    IF n = 0 THEN {<<>>}
    ELSE LET shorter == SeqsUpTo(S, n - 1)
         IN  shorter \cup {Append(s, x) : s \in shorter, x \in S}

NetInputs(p) ==
    {[err |-> e, arrivals |-> <<>>] : e \in {"socket", "bind", "send"}}
    \cup {[err |-> "none", arrivals |-> a] :
            a \in SeqsUpTo({Endpoint(Remote(p)), OtherPort(Remote(p))}, MaxDatagrams)}

\* ProbeResult with an except branch that does not set the state
ProbeResult_ErrorKeepsState(p, net) ==
    IF net.err # "none" THEN IN_PROGRESS
    ELSE IF net.arrivals = <<>> THEN FAILED
    ELSE IF Head(net.arrivals) = <<Remote(p).address, Remote(p).port>>
         THEN SUCCEEDED
    ELSE FAILED

\* ProbeResult with a timeout branch that leaves the state as it is
ProbeResult_TimeoutKeepsState(p, net) ==
    IF net.err # "none" THEN FAILED
    ELSE IF net.arrivals = <<>> THEN IN_PROGRESS
    ELSE IF Head(net.arrivals) = <<Remote(p).address, Remote(p).port>>
         THEN SUCCEEDED
    ELSE FAILED

\* sockets a probe has closed when it returns, were close() called on the
\* normal path only
SocketsClosed_NoFinally(net) == IF net.err = "none" THEN 1 ELSE 0

\* sockets a probe has created: socket.socket() returned unless it raised
SocketsCreated(net) == IF net.err = "socket" THEN 0 ELSE 1
\* sockets a probe has closed when it returns: the finally block calls
\* sock.close(); when socket.socket() raised, sock is unbound and the
\* NameError is swallowed by the bare except
SocketsClosed(net) == IF net.err = "socket" THEN 0 ELSE 1

\* the state perform_connectivity_check leaves the pair in
ProbeResult(p, net) ==
    IF net.err # "none" THEN FAILED                      \* except Exception
    ELSE IF net.arrivals = <<>> THEN FAILED              \* socket.timeout
    ELSE IF Head(net.arrivals) = <<Remote(p).address, Remote(p).port>>
         THEN SUCCEEDED                                  \* the one recvfrom
    ELSE FAILED

ProbeEnd ==
    /\ ~probe.done
    /\ \E net \in NetInputs(candidate_pairs[probe.pair]) :
         /\ candidate_pairs' =
              SetState(candidate_pairs, probe.pair,
                       ProbeResult(candidate_pairs[probe.pair], net))
         /\ probe' = [probe EXCEPT !.done = TRUE, !.net = net]
    /\ UNCHANGED <<local_candidates, remote_candidates, nominated_pair, fresh,
                   pc, check_tasks, started, ret>>
    /\ UNCHANGED flow_vars

\* asyncio.gather resolves once every task it holds is done
GatherDone ==
    /\ pc = "gather"
    /\ probe.done
    /\ started = Len(check_tasks)
    /\ pc' = "scan"
    /\ UNCHANGED <<local_candidates, remote_candidates, candidate_pairs,
                   nominated_pair, fresh, check_tasks, started, probe, ret>>
    /\ UNCHANGED flow_vars

\* NominationScan without the break
NominationScan_NoBreak(pairs) ==
    LET S == {i \in 1..Len(pairs) : pairs[i].state = SUCCEEDED}
        RECURSIVE Asc(_)
        Asc(i) == IF i > Len(pairs) THEN <<>>
                  ELSE (IF i \in S THEN <<i>> ELSE <<>>) \o Asc(i + 1)
    IN  Asc(1)

\* NominationScan walking the list from its end
NominationScan_Reversed(pairs) ==
    LET S == {i \in 1..Len(pairs) : pairs[i].state = SUCCEEDED}
    IN  IF S = {} THEN <<>>
        ELSE <<CHOOSE i \in S : \A j \in S : i >= j>>

\* the pairs the nomination loop nominates, in the order it visits them:
\* the first SUCCEEDED pair, then break
NominationScan(pairs) ==
    LET S == {i \in 1..Len(pairs) : pairs[i].state = SUCCEEDED}
    IN  IF S = {} THEN <<>>
        ELSE <<CHOOSE i \in S : \A j \in S : i <= j>>

\* the nomination loop and the return of run_connectivity_checks
Nominate ==
    /\ pc = "scan"
    /\ LET hit == NominationScan(candidate_pairs)
           Hit == {hit[k] : k \in 1..Len(hit)}
       IN  /\ candidate_pairs' =
                [i \in Idx |-> IF i \in Hit
                               THEN [candidate_pairs[i] EXCEPT !.nominated = TRUE]
                               ELSE candidate_pairs[i]]
           /\ nominated_pair' =
                IF hit = <<>> THEN nominated_pair ELSE PairRef(hit[Len(hit)])
    /\ ret' = IF nominated_pair' # NoPair THEN "True" ELSE "False"
    /\ pc' = "done"
    /\ probe' = NoProbe
    /\ UNCHANGED <<local_candidates, remote_candidates, fresh, check_tasks,
                   started>>
    /\ UNCHANGED flow_vars

Next ==
    \/ create_candidate_pairs
    \/ RunStart
    \/ ProbeBegin
    \/ ProbeEnd
    \/ GatherDone
    \/ Nominate

Spec == Init /\ [][Next]_vars

\* batches on sessions with one remote candidate at most, under fairness: the
\* event loop runs every task that is ready, no socket call blocks for longer
\* than its timeout, gather wakes its caller
InitLive == Init /\ Len(remote_candidates) <= 1

SpecLive ==
    /\ InitLive /\ [][Next]_vars
    /\ WF_vars(ProbeBegin) /\ WF_vars(ProbeEnd)
    /\ WF_vars(GatherDone) /\ WF_vars(Nominate)

\* ------------------------------------ two tasks on one event loop
\* run_connectivity_checks called from two tasks of one asyncio event loop on
\* a peer whose pairs have been created. The loop runs one handle of its
\* ready queue at a time, in the order they were scheduled; a coroutine runs
\* until its next await. loop.queue is the ready queue, loop.running the
\* probes that have begun and not returned, loop.batch each task's call.
Tasks == {1, 2}
Handle(kind, task, pair) == [kind |-> kind, task |-> task, pair |-> pair]
IdleBatch == [stage |-> "idle", check_tasks |-> <<>>, pending |-> 0, ret |-> NoRet]

InitOverlap ==
    /\ local_candidates \in LocalLists
    /\ remote_candidates \in RemoteLists
    /\ candidate_pairs = SortDesc(PairLoop(local_candidates, remote_candidates, 1, 1))
    /\ nominated_pair = NoPair
    /\ fresh = FALSE
    /\ pc = "paired"
    /\ check_tasks = <<>>
    /\ started = 0
    /\ probe = NoProbe
    /\ ret = NoRet
    /\ est = "idle"
    /\ est_ret = NoRet
    /\ est_err = "none"
    /\ genv = NoEnv
    /\ sent = <<>>
    /\ inbox = <<>>
    /\ timed_out = FALSE
    /\ call = NoCall
    /\ loop = [queue |-> <<>>, running |-> <<>>, batch |-> [t \in Tasks |-> IdleBatch]]
    /\ server = NoServer

overlap_unchanged ==
    UNCHANGED <<local_candidates, remote_candidates, fresh, pc, check_tasks,
                started, probe, ret, est, est_ret, est_err, genv, sent, inbox,
                timed_out, call, server>>

\* the nomination loop and the return value, as Nominate applies them
ScanFlags(pairs) ==
    LET hit == NominationScan(pairs)
    IN  [i \in 1..Len(pairs) |->
           IF hit # <<>> /\ i = hit[1] THEN [pairs[i] EXCEPT !.nominated = TRUE]
           ELSE pairs[i]]
ScanNominated(pairs, nominated) ==
    LET hit == NominationScan(pairs)
    IN  IF hit = <<>> THEN nominated ELSE PairRef(hit[1])
ScanReturn(nominated) == IF nominated # NoPair THEN "True" ELSE "False"

\* the probe handles asyncio.gather schedules, one per coroutine, in order
ProbeHandles(t, tasks) == [k \in 1..Len(tasks) |-> Handle("probe", t, tasks[k])]

\* a task is created for run_connectivity_checks: its first step is scheduled
LoopCall(t) ==
    /\ loop.batch[t].stage = "idle"
    /\ loop' = [loop EXCEPT !.queue = Append(@, Handle("start", t, 0)),
                            !.batch[t].stage = "scheduled"]
    /\ UNCHANGED <<candidate_pairs, nominated_pair>>
    /\ overlap_unchanged

\* the loop runs the first step of run_connectivity_checks: unfreeze, build
\* check_tasks, and either suspend in await asyncio.gather or, with no
\* check_tasks, scan and return at once
LoopStart(t) ==
    /\ loop.running = <<>>
    /\ loop.queue # <<>>
    /\ Head(loop.queue) = Handle("start", t, 0)
    /\ LET unfrozen == Unfreeze(candidate_pairs)
           tasks == WaitingFrom(unfrozen, 1)
       IN  IF tasks # <<>>
           THEN /\ candidate_pairs' = unfrozen
                /\ nominated_pair' = nominated_pair
                /\ loop' = [loop EXCEPT
                              !.queue = Tail(@) \o ProbeHandles(t, tasks),
                              !.batch[t] = [stage |-> "gather", check_tasks |-> tasks,
                                            pending |-> Len(tasks), ret |-> NoRet]]
           ELSE /\ candidate_pairs' = ScanFlags(unfrozen)
                /\ nominated_pair' = ScanNominated(unfrozen, nominated_pair)
                /\ loop' = [loop EXCEPT
                              !.queue = Tail(@),
                              !.batch[t] = [stage |-> "returned", check_tasks |-> <<>>,
                                            pending |-> 0,
                                            ret |-> ScanReturn(nominated_pair')]]
    /\ overlap_unchanged

\* the loop starts a probe task: perform_connectivity_check up to its
\* blocking recvfrom
LoopProbeBegin(t) ==
    /\ loop.running = <<>>
    /\ loop.queue # <<>>
    /\ Head(loop.queue).kind = "probe"
    /\ Head(loop.queue).task = t
    /\ candidate_pairs' = SetState(candidate_pairs, Head(loop.queue).pair, IN_PROGRESS)
    /\ loop' = [loop EXCEPT !.queue = Tail(@), !.running = <<Head(loop.queue)>>]
    /\ UNCHANGED nominated_pair
    /\ overlap_unchanged

\* the probe returns without having awaited; the task's done callback (the
\* one asyncio.gather added) is scheduled
LoopProbeEnd ==
    /\ loop.running # <<>>
    /\ LET h == loop.running[1]
       IN  /\ \E net \in NetInputs(candidate_pairs[h.pair]) :
                 candidate_pairs' =
                    SetState(candidate_pairs, h.pair,
                             ProbeResult(candidate_pairs[h.pair], net))
           /\ loop' = [loop EXCEPT !.running = <<>>,
                                   !.queue = Append(@, Handle("child_done", h.task, h.pair))]
    /\ UNCHANGED nominated_pair
    /\ overlap_unchanged

\* gather's done callback: the last child to finish resolves the future the
\* batch awaits, which schedules the batch's next step
LoopChildDone(t) ==
    /\ loop.running = <<>>
    /\ loop.queue # <<>>
    /\ Head(loop.queue).kind = "child_done"
    /\ Head(loop.queue).task = t
    /\ loop' = [loop EXCEPT
                  !.queue = IF loop.batch[t].pending = 1
                            THEN Append(Tail(@), Handle("wake", t, 0))
                            ELSE Tail(@),
                  !.batch[t].pending = @ - 1]
    /\ UNCHANGED <<candidate_pairs, nominated_pair>>
    /\ overlap_unchanged

\* the batch resumes after the await: the nomination loop and the return
LoopWake(t) ==
    /\ loop.running = <<>>
    /\ loop.queue # <<>>
    /\ Head(loop.queue) = Handle("wake", t, 0)
    /\ candidate_pairs' = ScanFlags(candidate_pairs)
    /\ nominated_pair' = ScanNominated(candidate_pairs, nominated_pair)
    /\ loop' = [loop EXCEPT !.queue = Tail(@),
                            !.batch[t].stage = "returned",
                            !.batch[t].ret = ScanReturn(nominated_pair')]
    /\ overlap_unchanged

OverlapNext ==
    \/ \E t \in Tasks : LoopCall(t)
    \/ \E t \in Tasks : LoopStart(t)
    \/ \E t \in Tasks : LoopProbeBegin(t)
    \/ LoopProbeEnd
    \/ \E t \in Tasks : LoopChildDone(t)
    \/ \E t \in Tasks : LoopWake(t)

SpecOverlap == InitOverlap /\ [][OverlapNext]_vars

\* ------------------------------------------------- the pairing formula
\* create_candidate_pairs applied to candidate lists whose priorities are
\* any 32-bit unsigned integers: the ends of the range, the two values next
\* to 2^31, and 0 and 1
EdgePriorities ==
    {Big32(0, 0), Big32(0, 1), Big32(32767, 65535), Big32(32768, 1),
     Big32(65535, 65535)}

PairingLists(address, port) ==
    UNION {{[i \in 1..n |-> ICECandidate(HOST, "udp", f[i], address, port + i)] :
               f \in [1..n -> EdgePriorities]} : n \in 1..MaxPairingLen}

InitPairing ==
    /\ local_candidates \in PairingLists("192.168.1.5", 50000)
    /\ remote_candidates \in PairingLists("192.168.1.6", 51000)
    /\ candidate_pairs = <<>>
    /\ nominated_pair = NoPair
    /\ fresh = FALSE
    /\ pc = "new"
    /\ check_tasks = <<>>
    /\ started = 0
    /\ probe = NoProbe
    /\ ret = NoRet
    /\ FlowIdle

SpecPairing == InitPairing /\ [][create_candidate_pairs]_vars

\* create_candidate_pairs applied to candidate lists whose priorities come
\* from calculate_priority: the ends of the local preference and component
\* ranges for the highest and the lowest type preference, and the
\* server-reflexive priority the peer itself computes
CalculatedPriorities ==
    {Big(calculate_priority(HOST, 65535, 1)),
     Big(calculate_priority(HOST, 0, 256)),
     Big(calculate_priority(SRFLX, 65535, 1)),
     Big(calculate_priority(RELAY, 0, 1)),
     Big(calculate_priority(RELAY, 0, 256))}

CalculatedLists(address, port) ==
    UNION {{[i \in 1..n |-> ICECandidate(HOST, "udp", f[i], address, port + i)] :
               f \in [1..n -> CalculatedPriorities]} : n \in 1..MaxPairingLen}

InitCalculated ==
    /\ local_candidates \in CalculatedLists("192.168.1.5", 50000)
    /\ remote_candidates \in CalculatedLists("192.168.1.6", 51000)
    /\ candidate_pairs = <<>>
    /\ nominated_pair = NoPair
    /\ fresh = FALSE
    /\ pc = "new"
    /\ check_tasks = <<>>
    /\ started = 0
    /\ probe = NoProbe
    /\ ret = NoRet
    /\ FlowIdle

SpecCalculated == InitCalculated /\ [][create_candidate_pairs]_vars

\* ------------------------------------------------ the priority formula
\* calculate_priority applied, for one local preference and one component,
\* to each of the four candidate types
LocalPrefs == {0, 1, 65535} \cup {65535 - i * 1000 : i \in 0..MaxPrefStep}
Components == 1..MaxComponent
CandidateTypes == {HOST, SRFLX, PRFLX, RELAY}

InitPriority ==
    /\ local_candidates = <<>>
    /\ remote_candidates = <<>>
    /\ candidate_pairs = <<>>
    /\ nominated_pair = NoPair
    /\ fresh = FALSE
    /\ pc = "new"
    /\ check_tasks = <<>>
    /\ started = 0
    /\ probe = NoProbe
    /\ ret = NoRet
    /\ est = "idle"
    /\ est_ret = NoRet
    /\ est_err = "none"
    /\ genv = NoEnv
    /\ sent = <<>>
    /\ inbox = <<>>
    /\ timed_out = FALSE
    /\ loop = NoLoop
    /\ server = NoServer
    /\ call \in {[fn |-> "calculate_priority", local_pref |-> lp, component |-> c,
                   done |-> FALSE, out |-> [t \in CandidateTypes |-> 0]] :
                    lp \in LocalPrefs, c \in Components}

CalculatePriorityCalls ==
    /\ call.fn = "calculate_priority"
    /\ ~call.done
    /\ call' = [call EXCEPT
                  !.done = TRUE,
                  !.out = [t \in CandidateTypes |->
                             calculate_priority(t, call.local_pref, call.component)]]
    /\ UNCHANGED <<local_candidates, remote_candidates, candidate_pairs,
                   nominated_pair, fresh, pc, check_tasks, started, probe, ret,
                   est, est_ret, est_err, genv, sent, inbox, timed_out>>
    /\ UNCHANGED <<loop, server>>

SpecPriority == InitPriority /\ [][CalculatePriorityCalls]_vars

\* ------------------------------------------------ establish_connection
\* one call of establish_connection on a newly constructed peer, as run()
\* makes it: connect, gather, exchange, pair, check, return
PeerName == "alice"
RemotePeer == "bob"
OtherPeer == "carol"

\* get_local_interfaces: the detected address, or loopback when detection fails
InterfaceLists == {<<"192.168.1.5">>, <<"127.0.0.1">>}

\* the host loop of gather_host_candidates over interfaces that all bind
RECURSIVE HostLoop(_, _)
HostLoop(interfaces, i) ==
    IF i > Len(interfaces) THEN <<>>
    ELSE <<ICECandidate(HOST, "udp",
                        Big(calculate_priority(HOST, 65535 - (i - 1) * 1000, 1)),
                        interfaces[i], 50000 + (i - 1))>>
         \o HostLoop(interfaces, i + 1)

\* sock.bind raises for an interface of the loop
BindRaises(interfaces, unbindable) ==
    \E i \in 1..Len(interfaces) : interfaces[i] \in unbindable

\* the replies gathering can meet
StunReplies ==
    {StunReply("timeout", 0, FALSE, "absent"),
     StunReply("datagram", 8, TRUE, "absent"),
     StunReply("datagram", 20, TRUE, "absent"),
     StunReply("datagram", 32, FALSE, "ok"),
     StunReply("datagram", 32, TRUE, "short"),
     StunReply("datagram", 32, TRUE, "ok")}

None == [found |-> FALSE, address |-> "", port |-> 0]
PublicAddr == [found |-> TRUE, address |-> "203.0.113.5", port |-> 40000]

\* discover_public_address without the transaction id test
discover_public_address_NoTxCheck(reply) ==
    IF reply.kind # "datagram" THEN None
    ELSE IF reply.length < 20 THEN None
    ELSE IF reply.xma = "ok" THEN PublicAddr
    ELSE None

\* STUNClient.discover_public_address: every exception ends in return None
discover_public_address(reply) ==
    IF reply.kind # "datagram" THEN None
    ELSE IF reply.length < 20 THEN None
    ELSE IF ~reply.tx_ok THEN None
    ELSE IF reply.xma = "ok" THEN PublicAddr
    ELSE None

gather_server_reflexive_candidates(public_addr) ==
    IF public_addr.found
    THEN <<ICECandidate(SRFLX, "udp", Big(calculate_priority(SRFLX, 65535, 1)),
                        public_addr.address, public_addr.port)>>
    ELSE <<>>

\* messages on the websocket; candidate is a dictionary as to_dict builds it
NoDict == [type |-> "", transport |-> "", priority |-> Big(0), address |-> "", port |-> 0]
Message(type, from, to, candidate) ==
    [type |-> type, from |-> from, to |-> to, candidate |-> candidate]
to_dict(c) ==
    [type |-> c.type, transport |-> c.transport, priority |-> c.priority,
     address |-> c.address, port |-> c.port]
\* CandidateType(data['type']) raises ValueError for any other string
FromDictRaises(d) == d.type \notin CandidateTypes
from_dict(d) == ICECandidate(d.type, d.transport, d.priority, d.address, d.port)

RegisterMsg == Message("register", PeerName, "", NoDict)

\* the send loop of exchange_candidates, last candidate first
RECURSIVE CandidateMessages_Reversed(_)
CandidateMessages_Reversed(cands) ==
    IF cands = <<>> THEN <<>>
    ELSE CandidateMessages_Reversed(Tail(cands))
         \o <<Message("ice_candidate", PeerName, RemotePeer, to_dict(Head(cands)))>>

\* the send loop of exchange_candidates: one message per local candidate
RECURSIVE CandidateMessages(_)
CandidateMessages(cands) ==
    IF cands = <<>> THEN <<>>
    ELSE <<Message("ice_candidate", PeerName, RemotePeer, to_dict(Head(cands)))>>
         \o CandidateMessages(Tail(cands))

\* what the signaling server can push to this peer: its registration reply,
\* an error for a message it could not relay, and relayed candidates
RemoteDicts ==
    {to_dict(c) : c \in {r \in RemoteUniverse : r.type \in {HOST, SRFLX}}}
BogusDict == [type |-> "bogus", transport |-> "udp", priority |-> Big(1),
              address |-> "192.168.1.6", port |-> 51000]
ServerMessages ==
    {Message("registration_success", "", "", NoDict),
     Message("error", "", "", NoDict),
     Message("ice_candidate", OtherPeer, PeerName, BogusDict),
     Message("ice_candidate", RemotePeer, PeerName, BogusDict)}
    \cup {Message("ice_candidate", RemotePeer, PeerName, d) : d \in RemoteDicts}

batch_vars == <<candidate_pairs, nominated_pair, fresh, pc, check_tasks,
                started, probe, ret>>

InitSession ==
    /\ local_candidates = <<>>
    /\ remote_candidates = <<>>
    /\ candidate_pairs = <<>>
    /\ nominated_pair = NoPair
    /\ fresh = FALSE
    /\ pc = "new"
    /\ check_tasks = <<>>
    /\ started = 0
    /\ probe = NoProbe
    /\ ret = NoRet
    /\ FlowIdle

\* an exception inside the try of establish_connection: logged, return False
Raise(step) ==
    /\ est' = "returned"
    /\ est_ret' = "False"
    /\ est_err' = step

\* websockets.connect and the register message; a failure is re-raised
connect_signaling ==
    /\ est = "idle"
    /\ \E ok \in BOOLEAN :
          IF ok
          THEN /\ est' = "connected"
               /\ sent' = Append(sent, RegisterMsg)
               /\ UNCHANGED <<est_ret, est_err>>
          ELSE /\ Raise("connect")
               /\ UNCHANGED sent
    /\ UNCHANGED <<local_candidates, remote_candidates, batch_vars,
                   genv, inbox, timed_out, call>>
    /\ UNCHANGED <<loop, server>>

\* host candidates, then server-reflexive ones, then the sort; a bind that
\* raises leaves gather_host_candidates before anything is appended
gather_candidates ==
    /\ est = "connected"
    /\ \E interfaces \in InterfaceLists, reply \in StunReplies :
       \E unbindable \in SUBSET {interfaces[i] : i \in 1..Len(interfaces)} :
          IF BindRaises(interfaces, unbindable)
          THEN /\ genv' = [interfaces |-> interfaces, unbindable |-> unbindable,
                           reply |-> Unasked]
               /\ Raise("gather")
               /\ UNCHANGED local_candidates
          ELSE /\ genv' = [interfaces |-> interfaces, unbindable |-> unbindable,
                           reply |-> reply]
               /\ local_candidates' =
                     SortDesc(local_candidates \o HostLoop(interfaces, 1)
                              \o gather_server_reflexive_candidates(
                                    discover_public_address(reply)))
               /\ est' = "gathered"
               /\ UNCHANGED <<est_ret, est_err>>
    /\ UNCHANGED <<remote_candidates, batch_vars, sent, inbox, timed_out, call>>
    /\ UNCHANGED <<loop, server>>

\* the send loop of exchange_candidates; a send that raises ends the call
\* with the candidates before it sent
ExchangeSend ==
    /\ est = "gathered"
    /\ \E n \in 0..Len(local_candidates) :
          /\ sent' = sent \o SubSeq(CandidateMessages(local_candidates), 1, n)
          /\ IF n = Len(local_candidates)
             THEN /\ est' = IF Len(remote_candidates) = 0
                            THEN "receiving" ELSE "exchanged"
                  /\ UNCHANGED <<est_ret, est_err>>
             ELSE Raise("exchange")
    /\ UNCHANGED <<local_candidates, remote_candidates, batch_vars,
                   genv, inbox, timed_out, call>>
    /\ UNCHANGED <<loop, server>>

\* the signaling server pushes a message while the peer is connected and
\* exchange_candidates has not returned
Deliver ==
    /\ est \in {"connected", "gathered", "receiving"}
    /\ Len(inbox) < MaxInbox
    /\ \E m \in ServerMessages : inbox' = Append(inbox, m)
    /\ UNCHANGED <<local_candidates, remote_candidates, batch_vars,
                   est, est_ret, est_err, genv, sent, timed_out, call>>
    /\ UNCHANGED <<loop, server>>

\* one turn of the receive loop whose recv() returns a message
Receive ==
    /\ est = "receiving"
    /\ inbox # <<>>
    /\ inbox' = Tail(inbox)
    /\ LET data == Head(inbox)
       IN  IF data.type = "ice_candidate" /\ data.from = RemotePeer
           THEN IF FromDictRaises(data.candidate)
                THEN /\ Raise("exchange")
                     /\ UNCHANGED remote_candidates
                ELSE /\ remote_candidates' =
                          Append(remote_candidates, from_dict(data.candidate))
                     /\ est' = IF Len(remote_candidates') = 0
                               THEN "receiving" ELSE "exchanged"
                     /\ UNCHANGED <<est_ret, est_err>>
           ELSE UNCHANGED <<remote_candidates, est, est_ret, est_err>>
    /\ UNCHANGED <<local_candidates, batch_vars, genv, sent, timed_out, call>>
    /\ UNCHANGED <<loop, server>>

\* the receive loop went on waiting after asyncio.TimeoutError
AfterTimeout_Continue == "receiving"

\* except asyncio.TimeoutError: break
AfterTimeout == "exchanged"

\* one turn of the receive loop whose recv() yields nothing for 10 s
RecvTimeout ==
    /\ est = "receiving"
    /\ inbox = <<>>
    /\ timed_out' = TRUE
    /\ est' = AfterTimeout
    /\ UNCHANGED <<local_candidates, remote_candidates, batch_vars,
                   est_ret, est_err, genv, sent, inbox, call>>
    /\ UNCHANGED <<loop, server>>

EstCreate == est = "exchanged" /\ pc = "new" /\ create_candidate_pairs

EstRun == est = "exchanged" /\ pc = "paired" /\ RunStart

\* establish_connection always reporting success
EstablishResult_AlwaysTrue(success) == "True"

\* if success: return True / else: return False
EstablishResult(success) == IF success = "True" THEN "True" ELSE "False"

EstReturn ==
    /\ est = "exchanged"
    /\ pc = "done"
    /\ est' = "returned"
    /\ est_ret' = EstablishResult(ret)
    /\ UNCHANGED <<local_candidates, remote_candidates, batch_vars,
                   est_err, genv, sent, inbox, timed_out, call>>
    /\ UNCHANGED <<loop, server>>

SessionNext ==
    \/ connect_signaling
    \/ gather_candidates
    \/ ExchangeSend
    \/ Deliver
    \/ Receive
    \/ RecvTimeout
    \/ EstCreate
    \/ EstRun
    \/ ProbeBegin
    \/ ProbeEnd
    \/ GatherDone
    \/ Nominate
    \/ EstReturn

SpecSession == InitSession /\ [][SessionNext]_vars

\* ------------------------------------------------ the signaling server
\* SignalingServer with up to MaxConns websocket connections. server.conns[c]
\* is connection c: whether handle_peer_connection runs for it, its local
\* peer_name, how many ice_candidate messages the server had handled when it
\* registered, and what the server has sent on it; server.peers is self.peers
\* (0 for a name that is not a key); server.relayed records, for the k-th
\* ice_candidate the server handled, who sent it and what relay_message did.
\* Every client is an ICEPeer: it registers once, in connect_signaling, and
\* then sends its candidates under its own name, in exchange_candidates.
Conns == 1..MaxConns
Names == {PeerName, RemotePeer}
NoConn == 0
ServerMsg(type, id, from, to) == [type |-> type, id |-> id, from |-> from, to |-> to]
IsOpen(conns, c) == c # NoConn /\ conns[c].state = "open"

InitSignaling ==
    /\ local_candidates = <<>>
    /\ remote_candidates = <<>>
    /\ candidate_pairs = <<>>
    /\ nominated_pair = NoPair
    /\ fresh = FALSE
    /\ pc = "new"
    /\ check_tasks = <<>>
    /\ started = 0
    /\ probe = NoProbe
    /\ ret = NoRet
    /\ est = "idle"
    /\ est_ret = NoRet
    /\ est_err = "none"
    /\ genv = NoEnv
    /\ sent = <<>>
    /\ inbox = <<>>
    /\ timed_out = FALSE
    /\ call = NoCall
    /\ loop = NoLoop
    /\ server = [conns |-> [c \in Conns |-> [state |-> "new", peer_name |-> "",
                                              joined |-> 0, out |-> <<>>]],
                 peers |-> [n \in Names |-> NoConn],
                 relayed |-> <<>>]

signaling_unchanged ==
    UNCHANGED <<local_candidates, remote_candidates, candidate_pairs,
                nominated_pair, fresh, pc, check_tasks, started, probe, ret,
                est, est_ret, est_err, genv, sent, inbox, timed_out, call, loop>>

\* await websocket.send(...): the message reaches an open connection; on a
\* closed one send raises and the caller's except logs it
WsSend(conns, c, msg) ==
    IF IsOpen(conns, c) THEN [conns EXCEPT ![c].out = Append(@, msg)] ELSE conns

\* a client connects: handle_peer_connection starts with peer_name = None
Connect(c) ==
    /\ server.conns[c].state = "new"
    /\ \A d \in Conns : d < c => server.conns[d].state # "new"
    /\ server' = [server EXCEPT !.conns[c].state = "open"]
    /\ signaling_unchanged

\* a register message: peer_name = data.get('peer_name'), then register_peer
\* replaces self.peers[peer_name] and answers registration_success
Register(c, name) ==
    /\ IsOpen(server.conns, c)
    /\ server.conns[c].peer_name = ""
    /\ server' = [server EXCEPT
                    !.peers[name] = c,
                    !.conns = WsSend([@ EXCEPT ![c].peer_name = name,
                                               ![c].joined = Len(server.relayed)],
                                     c, ServerMsg("registration_success", 0, "", name))]
    /\ signaling_unchanged

\* relay_message sending a message for an unregistered name to the oldest
\* open connection
RelayTarget_AnyOpen(conns, peers, to_peer) ==
    IF peers[to_peer] # NoConn THEN peers[to_peer]
    ELSE IF \E c \in Conns : IsOpen(conns, c)
         THEN CHOOSE c \in Conns : IsOpen(conns, c) /\ \A d \in Conns : IsOpen(conns, d) => c <= d
    ELSE NoConn

\* the websocket relay_message sends the message to: self.peers[to_peer], or
\* none when to_peer is not a key
RelayTarget(conns, peers, to_peer) == peers[to_peer]

\* the websocket the error goes to: self.peers[from_peer] if from_peer is a key
ErrorTarget(peers, from_peer) == peers[from_peer]

\* exchange_candidates of the client on connection c: one remote candidate
\* per ice_candidate message it is sent
RemoteCandidatesOf(conns, c) ==
    Cardinality({i \in 1..Len(conns[c].out) : conns[c].out[i].type = "ice_candidate"})

\* an ice_candidate message, 'from' the sender's own name: relay_message
SendCandidate(c, to_peer) ==
    /\ IsOpen(server.conns, c)
    /\ server.conns[c].peer_name # ""
    /\ Len(server.relayed) < MaxSends
    /\ LET id == Len(server.relayed) + 1
           from_peer == server.conns[c].peer_name
           target == RelayTarget(server.conns, server.peers, to_peer)
           msg == ServerMsg("ice_candidate", id, from_peer, to_peer)
           err == ServerMsg("error", id, "", to_peer)
       IN  server' = [server EXCEPT
                        !.conns = IF target = NoConn
                                  THEN WsSend(@, ErrorTarget(server.peers, from_peer), err)
                                  ELSE WsSend(@, target, msg),
                        !.relayed = Append(@, [sender |-> c, from |-> from_peer,
                                               to |-> to_peer,
                                               registered |-> server.peers[to_peer] # NoConn,
                                               holder |-> server.peers[to_peer],
                                               sender_holds |-> server.peers[from_peer] = c])]
    /\ signaling_unchanged

\* the connection ends: the finally block deletes self.peers[peer_name] for
\* the handler's last peer_name
Close(c) ==
    /\ IsOpen(server.conns, c)
    /\ LET name == server.conns[c].peer_name
       IN  server' = [server EXCEPT
                        !.conns[c].state = "closed",
                        !.peers = IF name # "" /\ @[name] # NoConn
                                  THEN [@ EXCEPT ![name] = NoConn] ELSE @]
    /\ signaling_unchanged

SignalingNext ==
    \/ \E c \in Conns : Connect(c)
    \/ \E c \in Conns, name \in Names : Register(c, name)
    \/ \E c \in Conns, to_peer \in Names : SendCandidate(c, to_peer)
    \/ \E c \in Conns : Close(c)

SpecSignaling == InitSignaling /\ [][SignalingNext]_vars

\* ------------------------------------------------------- the STUN codec
\* messages are sequences of bytes; offsets are 0-based as in the code
BINDING_REQUEST == 1
BINDING_RESPONSE == 257
BINDING_ERROR == 273
MAPPED_ADDRESS == 1
XOR_MAPPED_ADDRESS == 32
SOFTWARE == 32802
\* 0x2112A442, most significant byte first
MAGIC_COOKIE == <<33, 18, 164, 66>>
\* MAGIC_COOKIE >> 16
CookieHigh == MAGIC_COOKIE[1] * 256 + MAGIC_COOKIE[2]
\* MAGIC_COOKIE & 0xFFFF
CookieLow == MAGIC_COOKIE[3] * 256 + MAGIC_COOKIE[4]

\* a ^ b on integers of the given number of bits
RECURSIVE Xor(_, _, _)
Xor(a, b, bits) ==
    IF bits = 0 THEN 0
    ELSE (((a % 2) + (b % 2)) % 2) + 2 * Xor(a \div 2, b \div 2, bits - 1)

\* struct.pack('>H', n) and struct.unpack('>H', data[offset:offset+2])
Pack16(n) == <<n \div 256, n % 256>>
Unpack16(data, offset) == data[offset + 1] * 256 + data[offset + 2]
\* data[lo:hi]
Slice(data, lo, hi) == SubSeq(data, lo + 1, IF hi < Len(data) THEN hi ELSE Len(data))

\* struct.pack('>HHI12s', type, length, MAGIC_COOKIE, transaction_id)
StunHeader(type, length, transaction_id) ==
    Pack16(type) \o Pack16(length) \o MAGIC_COOKIE \o transaction_id

\* the request discover_public_address sends
BindingRequest(transaction_id) == StunHeader(BINDING_REQUEST, 0, transaction_id)

\* create_xor_mapped_address with the port XORed with the low half of the cookie
create_xor_mapped_address_LowHalf(ip, port) ==
    Pack16(1) \o Pack16(Xor(port, CookieLow, 16))
    \o [i \in 1..4 |-> Xor(ip[i], MAGIC_COOKIE[i], 8)]

\* STUNServer.create_xor_mapped_address; ip is the four numbers of the dotted
\* address, so ip_int packed with '>I' is these four bytes, and the XOR of
\* two 32-bit integers is the XOR of their bytes
create_xor_mapped_address(ip, port) ==
    Pack16(1) \o Pack16(Xor(port, CookieHigh, 16))
    \o [i \in 1..4 |-> Xor(ip[i], MAGIC_COOKIE[i], 8)]

\* "Educational STUN Server (RFC 5389 Demo)".encode('utf-8')
create_software_attribute ==
    <<69, 100, 117, 99, 97, 116, 105, 111, 110, 97, 108, 32, 83, 84, 85, 78, 32,
      83, 101, 114, 118, 101, 114, 32, 40, 82, 70, 67, 32, 53, 51, 56, 57, 32,
      68, 101, 109, 111, 41>>

\* b'\x00' * n
Zeros(n) == [i \in 1..n |-> 0]
\* an attribute: its type, the length of its value, the value, the padding
Attribute(type, value) ==
    Pack16(type) \o Pack16(Len(value)) \o value
    \o Zeros((4 - (Len(value) % 4)) % 4)

create_binding_response(transaction_id, client_addr) ==
    LET attr_data ==
            Attribute(XOR_MAPPED_ADDRESS,
                      create_xor_mapped_address(client_addr.ip, client_addr.port))
            \o Attribute(SOFTWARE, create_software_attribute)
    IN  StunHeader(BINDING_RESPONSE, Len(attr_data), transaction_id) \o attr_data

\* handle_stun_request for a message parse_stun_message accepts (20 bytes or
\* more, the magic cookie in bytes 4..7) and whose type is BINDING_REQUEST, the
\* one type the client sends; <<>> when the server sends no binding response
handle_stun_request(data, client_addr) ==
    IF Len(data) < 20 THEN <<>>
    ELSE IF Slice(data, 4, 8) # MAGIC_COOKIE THEN <<>>
    ELSE IF Unpack16(data, 0) # BINDING_REQUEST THEN <<>>
    ELSE create_binding_response(Slice(data, 8, 20), client_addr)

NoAddress == [found |-> FALSE, address |-> <<0, 0, 0, 0>>, port |-> 0]

\* the attribute loop of discover_public_address; the address is the four
\* numbers inet_ntoa joins with dots
RECURSIVE AttrLoop(_, _)
AttrLoop(response, offset) ==
    IF offset >= Len(response) THEN NoAddress
    ELSE IF offset + 4 > Len(response) THEN NoAddress
    ELSE LET attr_type == Unpack16(response, offset)
             attr_len == Unpack16(response, offset + 2)
             attr_value == Slice(response, offset + 4, offset + 4 + attr_len)
         IN  IF attr_type = XOR_MAPPED_ADDRESS /\ Len(attr_value) >= 8
             THEN [found |-> TRUE,
                   address |-> [i \in 1..4 |->
                                  Xor(attr_value[4 + i], MAGIC_COOKIE[i], 8)],
                   port |-> Xor(Unpack16(attr_value, 2), CookieHigh, 16)]
             ELSE AttrLoop(response,
                           offset + 4 + attr_len
                           + (IF attr_len % 4 # 0 THEN 4 - (attr_len % 4) ELSE 0))

\* ParseResponse without the transaction id test
ParseResponse_NoTxCheck(response, transaction_id) ==
    IF Len(response) < 20 THEN NoAddress
    ELSE AttrLoop(response, 20)

\* discover_public_address from len(response) < 20 on
ParseResponse(response, transaction_id) ==
    IF Len(response) < 20 THEN NoAddress
    ELSE IF Slice(response, 8, 20) # transaction_id THEN NoAddress
    ELSE AttrLoop(response, 20)

\* one STUN transaction: the client's request, a response from the server
\* or from anyone else who can reach the client's socket, the client's parse
StunIps == {<<0, 0, 0, 0>>, <<255, 255, 255, 255>>, <<33, 18, 164, 66>>,
            <<203, 0, 113, 5>>}
StunPorts == {0, 65535, 8466, 40000}
\* secrets.token_bytes(12)
TransactionIds == {[i \in 1..12 |-> 17], [i \in 1..12 |-> 20 * i]}
OtherTransactionId(transaction_id) ==
    [i \in 1..12 |-> (transaction_id[i] + 1) % 256]

\* datagrams that are not the server's answer to this request
CraftedResponses(transaction_id, addr) ==
    LET xma == create_xor_mapped_address(addr.ip, addr.port)
    IN  {Slice(create_binding_response(transaction_id, addr), 0, 8),
         create_binding_response(OtherTransactionId(transaction_id), addr),
         StunHeader(BINDING_RESPONSE, 0, transaction_id),
         StunHeader(BINDING_RESPONSE, 2, transaction_id) \o Pack16(XOR_MAPPED_ADDRESS),
         StunHeader(BINDING_RESPONSE, 8, transaction_id)
            \o Attribute(XOR_MAPPED_ADDRESS, Slice(xma, 0, 4)),
         StunHeader(BINDING_RESPONSE, 10, transaction_id)
            \o Pack16(XOR_MAPPED_ADDRESS) \o Pack16(8) \o Slice(xma, 0, 6),
         StunHeader(BINDING_RESPONSE, 12, transaction_id)
            \o Attribute(MAPPED_ADDRESS, xma),
         StunHeader(BINDING_RESPONSE, 20, transaction_id)
            \o Attribute(SOFTWARE, <<83, 84, 85>>)
            \o Attribute(XOR_MAPPED_ADDRESS, xma),
         StunHeader(BINDING_RESPONSE, 0, transaction_id)
            \o Attribute(XOR_MAPPED_ADDRESS, xma),
         StunHeader(BINDING_ERROR, 12, transaction_id)
            \o Attribute(XOR_MAPPED_ADDRESS, xma)}

InitStun ==
    /\ local_candidates = <<>>
    /\ remote_candidates = <<>>
    /\ candidate_pairs = <<>>
    /\ nominated_pair = NoPair
    /\ fresh = FALSE
    /\ pc = "new"
    /\ check_tasks = <<>>
    /\ started = 0
    /\ probe = NoProbe
    /\ ret = NoRet
    /\ est = "idle"
    /\ est_ret = NoRet
    /\ est_err = "none"
    /\ genv = NoEnv
    /\ sent = <<>>
    /\ inbox = <<>>
    /\ timed_out = FALSE
    /\ loop = NoLoop
    /\ server = NoServer
    /\ call \in {[fn |-> "stun", client_addr |-> [ip |-> ip, port |-> port],
                   transaction_id |-> t, request |-> BindingRequest(t),
                   stage |-> "requested", origin |-> "none",
                   response |-> <<>>, result |-> NoAddress] :
                    ip \in StunIps, port \in StunPorts, t \in TransactionIds}

stun_unchanged ==
    <<local_candidates, remote_candidates, candidate_pairs, nominated_pair,
      fresh, pc, check_tasks, started, probe, ret, est, est_ret, est_err,
      genv, sent, inbox, timed_out, loop, server>>

\* the server handles the request and its response reaches the client
StunServerReply ==
    /\ call.fn = "stun"
    /\ call.stage = "requested"
    /\ handle_stun_request(call.request, call.client_addr) # <<>>
    /\ call' = [call EXCEPT
                  !.stage = "replied",
                  !.origin = "server",
                  !.response = handle_stun_request(call.request, call.client_addr)]
    /\ UNCHANGED stun_unchanged

\* another datagram reaches the client's socket first
StunOtherReply ==
    /\ call.fn = "stun"
    /\ call.stage = "requested"
    /\ \E r \in CraftedResponses(call.transaction_id, call.client_addr) :
          call' = [call EXCEPT !.stage = "replied", !.origin = "other",
                               !.response = r]
    /\ UNCHANGED stun_unchanged

\* recvfrom returned: the client parses what it got
StunParse ==
    /\ call.fn = "stun"
    /\ call.stage = "replied"
    /\ call' = [call EXCEPT
                  !.stage = "parsed",
                  !.result = ParseResponse(call.response, call.transaction_id)]
    /\ UNCHANGED stun_unchanged

StunNext == StunServerReply \/ StunOtherReply \/ StunParse

SpecStun == InitStun /\ [][StunNext]_vars

TypeOK ==
    /\ pc \in {"new", "paired", "gather", "scan", "done"}
    /\ fresh \in BOOLEAN
    /\ nominated_pair \in {NoPair, OldPair} \cup {PairRef(i) : i \in Idx}
    /\ ret \in {NoRet, "True", "False"}
    /\ est \in {"idle", "connected", "gathered", "receiving", "exchanged", "returned"}
    /\ est_ret \in {NoRet, "True", "False"}
    /\ est_err \in {"none", "connect", "gather", "exchange"}
    /\ timed_out \in BOOLEAN
    /\ Len(inbox) <= MaxInbox
    /\ \A i \in Idx : candidate_pairs[i].state \in
                        {FROZEN, WAITING, IN_PROGRESS, SUCCEEDED, FAILED}

\* ------------------------------------------------------------------ claims
State(i) == candidate_pairs[i].state
Succeeded == {i \in Idx : State(i) = SUCCEEDED}
Nominated == {i \in Idx : candidate_pairs[i].nominated}
Probed == {check_tasks[k] : k \in 1..Len(check_tasks)}

\* C1: after one batch on a freshly created pair set (all pairs FROZEN, none
\* nominated) at most one pair has nominated = true, and that pair is
\* SUCCEEDED and is the one nominated_pair refers to.
C1_NominationExclusive ==
    (pc = "done" /\ fresh) =>
        /\ Cardinality(Nominated) <= 1
        /\ \A i \in Nominated : State(i) = SUCCEEDED /\ nominated_pair = PairRef(i)

\* two probes of a first batch succeeded and one pair was nominated
C1_Witness ==
    /\ pc = "done"
    /\ fresh
    /\ Cardinality(Succeeded) >= 2
    /\ Nominated # {}

\* C2: when run_connectivity_checks returns, the nominated pair is the first
\* SUCCEEDED pair of candidate_pairs, which is the SUCCEEDED pair of highest
\* pair priority: no SUCCEEDED pair precedes it, whatever its rank.
C2_FirstSucceededNominated ==
    pc = "done" =>
        /\ Succeeded # {} =>
             /\ nominated_pair.kind = "pair"
             /\ nominated_pair.idx \in Succeeded
             /\ candidate_pairs[nominated_pair.idx].nominated
             /\ ret = "True"
        /\ nominated_pair.kind = "pair" =>
             \A j \in Succeeded :
                /\ nominated_pair.idx <= j
                /\ ~BigLess(candidate_pairs[nominated_pair.idx].priority,
                            candidate_pairs[j].priority)

\* of three probed pairs only the second succeeded, and it is nominated
C2_Witness ==
    /\ pc = "done"
    /\ Len(candidate_pairs) >= 3
    /\ State(1) = FAILED
    /\ State(2) = SUCCEEDED
    /\ State(3) = FAILED
    /\ nominated_pair = PairRef(2)
    /\ candidate_pairs[2].nominated

\* C3: a batch in which no pair ends SUCCEEDED returns False, leaves no pair
\* nominated and leaves nominated_pair None.
C3_NoSuccessReportsFailure ==
    (pc = "done" /\ Succeeded = {}) =>
        /\ ret = "False"
        /\ Nominated = {}
        /\ nominated_pair = NoPair

\* what holds instead: failure is reported exactly as long as no batch of the
\* session has nominated a pair
C3_FailureUntilFirstNomination ==
    pc = "done" =>
        /\ ret = "False" <=> nominated_pair = NoPair
        /\ nominated_pair = NoPair => (Succeeded = {} /\ Nominated = {})

\* C4: every pair starts FROZEN and every change of a pair's state is
\* FROZEN -> WAITING, WAITING -> IN_PROGRESS, IN_PROGRESS -> SUCCEEDED or
\* IN_PROGRESS -> FAILED, so SUCCEEDED and FAILED are never left.
LegalTransitions ==
    {<<FROZEN, WAITING>>, <<WAITING, IN_PROGRESS>>,
     <<IN_PROGRESS, SUCCEEDED>>, <<IN_PROGRESS, FAILED>>}

C4_LegalTransitions ==
    [][IF pc' = "paired"
       THEN \A i \in 1..Len(candidate_pairs') : candidate_pairs'[i].state = FROZEN
       ELSE \A i \in Idx :
              \/ candidate_pairs'[i].state = candidate_pairs[i].state
              \/ <<candidate_pairs[i].state, candidate_pairs'[i].state>> \in LegalTransitions]_vars

\* C5: in a batch over n pairs exactly the min(3, n) highest-priority pairs
\* are probed and resolved; every pair ranked 4th or lower stays FROZEN and
\* unnominated, and is never probed, also when the three probed pairs FAILED.
C5_OnlyTopThree ==
    /\ \A i \in Idx : i > 3 =>
          /\ State(i) = FROZEN
          /\ ~candidate_pairs[i].nominated
          /\ i \notin Probed
    /\ pc = "done" =>
          /\ Probed = {i \in Idx : i <= 3}
          /\ Len(check_tasks) = Cardinality(Probed)
          /\ \A i \in Probed :
                /\ State(i) \in {SUCCEEDED, FAILED}
                /\ \A j \in Idx \ Probed :
                      ~BigLess(candidate_pairs[i].priority, candidate_pairs[j].priority)

\* five pairs, the top three probed and FAILED, the other two still FROZEN
C5_Witness ==
    /\ pc = "done"
    /\ Len(candidate_pairs) >= 5
    /\ \A i \in 1..3 : State(i) = FAILED
    /\ State(4) = FROZEN
    /\ State(5) = FROZEN

\* C6: when the nomination scan reads the pair list, every probe of the batch
\* has returned: no pair is WAITING or IN_PROGRESS, also after failed probes.
C6_ScanAfterAllResolved ==
    pc = "scan" =>
        /\ probe.done
        /\ started = Len(check_tasks)
        /\ \A i \in Idx : State(i) \notin {WAITING, IN_PROGRESS}

\* the scan is about to run after a batch in which one probe succeeded, one
\* timed out or failed, and the last one raised on bind
C6_Witness ==
    /\ pc = "scan"
    /\ Len(check_tasks) >= 2
    /\ probe.net.err = "bind"
    /\ Succeeded # {}

\* C7: the probes of a batch are in flight together: none of them resolves
\* while another pair of the batch is still WAITING for its probe to start.
C7_LaunchedTogether ==
    (pc = "gather" /\ \E i \in Probed : State(i) \in {SUCCEEDED, FAILED}) =>
        \A j \in Probed : State(j) # WAITING

\* what the code does instead: one probe at a time, in list order
C7_OneProbeAtATime ==
    /\ Cardinality({i \in Idx : State(i) = IN_PROGRESS}) <= 1
    /\ pc = "gather" =>
         \A k \in 1..Len(check_tasks) :
            /\ k < started => State(check_tasks[k]) \in {SUCCEEDED, FAILED}
            /\ k > started => State(check_tasks[k]) = WAITING

\* C8: a probe ends SUCCEEDED whenever a datagram from exactly the pair's
\* remote (address, port) arrives within the wait, also after a datagram from
\* another source; it ends FAILED only on an error or when none arrived.
FromRemote(p, net) ==
    \E k \in 1..Len(net.arrivals) : net.arrivals[k] = Endpoint(Remote(p))

C8_RemoteDatagramSucceeds ==
    (probe.pair # 0 /\ probe.done) =>
        LET p == candidate_pairs[probe.pair]
        IN  /\ (probe.net.err = "none" /\ FromRemote(p, probe.net)) => p.state = SUCCEEDED
            /\ p.state = FAILED => (probe.net.err # "none" \/ ~FromRemote(p, probe.net))

\* C9: create_candidate_pairs yields exactly one pair, FROZEN and not
\* nominated, for every (local, remote) combination of equal transport and
\* none for any other; an empty candidate list yields an empty pair list.
C9_OnePairPerTransportMatch ==
    pc = "paired" =>
        /\ \A i \in 1..Len(local_candidates), j \in 1..Len(remote_candidates) :
              Cardinality({k \in Idx : candidate_pairs[k].local = i
                                       /\ candidate_pairs[k].remote = j})
                = IF local_candidates[i].transport = remote_candidates[j].transport
                  THEN 1 ELSE 0
        /\ \A k \in Idx :
              /\ candidate_pairs[k].local \in 1..Len(local_candidates)
              /\ candidate_pairs[k].remote \in 1..Len(remote_candidates)
              /\ State(k) = FROZEN
              /\ ~candidate_pairs[k].nominated
        /\ (local_candidates = <<>> \/ remote_candidates = <<>>) => candidate_pairs = <<>>

\* pairs were created from lists that hold a combination of unequal transport
C9_Witness ==
    /\ pc = "paired"
    /\ Len(candidate_pairs) >= 2
    /\ \E i \in 1..Len(local_candidates), j \in 1..Len(remote_candidates) :
          local_candidates[i].transport # remote_candidates[j].transport

\* C10: every pair that create_candidate_pairs built has the priority 2^32 * min(lp, rp) + 2 * max(lp, rp) +
\* (1 if lp > rp else 0), lp and rp the priorities of its two candidates.
\* Both sides are below 2^80 and are compared modulo six primes whose
\* product is above 2^89, which decides their equality.
Moduli == {32749, 32719, 32717, 32713, 32707, 32693}

C10_PairPriorityFormula ==
    pc = "paired" => \A k \in Idx :
        LET lp == Local(candidate_pairs[k]).priority
            rp == Remote(candidate_pairs[k]).priority
            lo == IF BigLess(rp, lp) THEN rp ELSE lp
            hi == IF BigLess(rp, lp) THEN lp ELSE rp
            tie == IF BigLess(rp, lp) THEN 1 ELSE 0
            pp == candidate_pairs[k].priority
        IN  /\ \A n \in Limbs : pp[n] \in 0..(Base - 1)
            /\ \A m \in Moduli :
                  Residue(pp, m) =
                    ((((Base % m) * (Base % m)) % m) * Residue(lo, m)
                       + 2 * Residue(hi, m) + tie) % m

\* a pair whose local priority is above its remote one (tie-break 1) beside
\* one whose remote priority is 2^32 - 1 (2 * D carries into the third limb)
C10_Witness ==
    /\ pc = "paired"
    /\ \E k \in Idx : BigLess(Remote(candidate_pairs[k]).priority,
                              Local(candidate_pairs[k]).priority)
    /\ \E k \in Idx : Remote(candidate_pairs[k]).priority = Big32(65535, 65535)

\* --------------------------------------------------------------- C11, C12
Below31(p) == BigLess(p, Big32(32768, 0))

\* C11: for candidate priorities that are 32-bit unsigned integers, two
\* pairs whose ordered (local.priority, remote.priority) values differ never
\* get the same pair priority.
C11_NoTies ==
    pc = "paired" => \A k1, k2 \in Idx :
        (<<Local(candidate_pairs[k1]).priority, Remote(candidate_pairs[k1]).priority>>
           # <<Local(candidate_pairs[k2]).priority, Remote(candidate_pairs[k2]).priority>>)
        => candidate_pairs[k1].priority # candidate_pairs[k2].priority

\* C11, as it holds: for candidate priorities below 2^31, two pairs whose
\* ordered (local.priority, remote.priority) values differ never get the
\* same pair priority (2 * D + tie-break then stays below 2^32, so G, D and
\* the tie-break are read back from the pair priority).
C11_NoTiesBelow31 ==
    pc = "paired" => \A k1, k2 \in Idx :
        LET l1 == Local(candidate_pairs[k1]).priority
            r1 == Remote(candidate_pairs[k1]).priority
            l2 == Local(candidate_pairs[k2]).priority
            r2 == Remote(candidate_pairs[k2]).priority
        IN  (/\ Below31(l1) /\ Below31(r1) /\ Below31(l2) /\ Below31(r2)
             /\ <<l1, r1>> # <<l2, r2>>)
            => candidate_pairs[k1].priority # candidate_pairs[k2].priority

\* four pairs over the priorities 0 and 2^31 - 1 on both sides: every ordered
\* combination of equal minimum, equal maximum and swapped roles
C11_Witness ==
    /\ pc = "paired"
    /\ Len(candidate_pairs) = 4
    /\ \A k \in Idx : /\ Below31(Local(candidate_pairs[k]).priority)
                       /\ Below31(Remote(candidate_pairs[k]).priority)
    /\ \E k \in Idx : /\ Local(candidate_pairs[k]).priority = Big32(0, 0)
                       /\ Remote(candidate_pairs[k]).priority = Big32(32767, 65535)
    /\ \E k \in Idx : /\ Local(candidate_pairs[k]).priority = Big32(32767, 65535)
                       /\ Remote(candidate_pairs[k]).priority = Big32(0, 0)

\* C12: for candidates A and B of different priority, the pair priority with
\* A local and B remote differs from the one with B local and A remote, and
\* the two differ in the lowest (tie-break) bit only.
C12_SwapDiffersInTieBreak ==
    pc = "paired" => \A k1, k2 \in Idx :
        LET l1 == Local(candidate_pairs[k1]).priority
            r1 == Remote(candidate_pairs[k1]).priority
            l2 == Local(candidate_pairs[k2]).priority
            r2 == Remote(candidate_pairs[k2]).priority
            p1 == candidate_pairs[k1].priority
            p2 == candidate_pairs[k2].priority
        IN  (l1 = r2 /\ r1 = l2 /\ l1 # r1)
            => /\ p1 # p2
               /\ \A n \in 2..5 : p1[n] = p2[n]
               /\ p1[1] \div 2 = p2[1] \div 2
               /\ p1[1] % 2 # p2[1] % 2

\* A = 2^32 - 1 and B = 2^31 + 1 were paired both ways round
C12_Witness ==
    /\ pc = "paired"
    /\ \E k1, k2 \in Idx :
          /\ Local(candidate_pairs[k1]).priority = Big32(65535, 65535)
          /\ Remote(candidate_pairs[k1]).priority = Big32(32768, 1)
          /\ Local(candidate_pairs[k2]).priority = Big32(32768, 1)
          /\ Remote(candidate_pairs[k2]).priority = Big32(65535, 65535)

\* -------------------------------------------------------------------- C13
\* C13: candidate_pairs is ordered by pair priority descending after
\* create_candidate_pairs and through the check batch, and probes are started
\* in that order: a pair's probe never starts before the probe of a
\* higher-priority WAITING pair has started.
C13_SortedAndStartedInOrder ==
    /\ \A i, j \in Idx :
          i < j => ~BigLess(candidate_pairs[i].priority, candidate_pairs[j].priority)
    /\ pc = "gather" =>
          \A a, b \in 1..Len(check_tasks) :
              (/\ b <= started
               /\ BigLess(candidate_pairs[check_tasks[b]].priority,
                          candidate_pairs[check_tasks[a]].priority))
              => a <= started

\* two probes of a batch have started, a third waits, and the sort moved a
\* pair: the list is not in the local-major order the loops built it in
C13_Witness ==
    /\ pc = "gather"
    /\ started = 2
    /\ Len(check_tasks) = 3
    /\ BigLess(candidate_pairs[2].priority, candidate_pairs[1].priority)
    /\ \E k \in Idx \ {1} :
          \/ candidate_pairs[k].local < candidate_pairs[k - 1].local
          \/ /\ candidate_pairs[k].local = candidate_pairs[k - 1].local
             /\ candidate_pairs[k].remote < candidate_pairs[k - 1].remote

\* -------------------------------------------------------------------- C14
\* C14: calculate_priority returns (type_preference << 24) +
\* (local_preference << 8) + (256 - component) with type preferences HOST 126,
\* PEER_REFLEXIVE 110, SERVER_REFLEXIVE 100, RELAY 0, so for equal
\* local_preference and component HOST > PEER_REFLEXIVE > SERVER_REFLEXIVE >
\* RELAY strictly.
C14_PriorityFormula ==
    (call.fn = "calculate_priority" /\ call.done) =>
        LET rest == call.local_pref * 256 + (256 - call.component)
        IN  /\ call.out[HOST] = 126 * 16777216 + rest
            /\ call.out[PRFLX] = 110 * 16777216 + rest
            /\ call.out[SRFLX] = 100 * 16777216 + rest
            /\ call.out[RELAY] = rest
            /\ call.out[HOST] > call.out[PRFLX]
            /\ call.out[PRFLX] > call.out[SRFLX]
            /\ call.out[SRFLX] > call.out[RELAY]

\* the four calls were made with the highest local preference and a
\* component other than 1
C14_Witness ==
    /\ call.fn = "calculate_priority"
    /\ call.done
    /\ call.local_pref = 65535
    /\ call.component = 2

\* ------------------------------------------------------------- C15 to C20
Gathered ==
    \/ est \in {"gathered", "receiving", "exchanged"}
    \/ est = "returned" /\ est_err \notin {"connect", "gather"}

\* C15: after gather_candidates local_candidates is sorted by priority
\* descending, and exchange_candidates sends the candidates to the remote
\* peer in that order: the k-th candidate message carries the k-th candidate,
\* and once the send loop is through there is one message per candidate.
C15_SortedAndSentInOrder ==
    /\ Gathered =>
          \A i, j \in 1..Len(local_candidates) :
              i < j => ~BigLess(local_candidates[i].priority,
                                local_candidates[j].priority)
    /\ sent # <<>> =>
          /\ sent[1] = RegisterMsg
          /\ Len(sent) - 1 <= Len(local_candidates)
          /\ \A k \in 1..(Len(sent) - 1) :
                sent[k + 1] = Message("ice_candidate", PeerName, RemotePeer,
                                      to_dict(local_candidates[k]))
    /\ est \in {"receiving", "exchanged"} => Len(sent) - 1 = Len(local_candidates)

\* a HOST and a SERVER_REFLEXIVE candidate were gathered and both were sent
C15_Witness ==
    /\ est = "receiving"
    /\ Len(local_candidates) = 2
    /\ local_candidates[1].type = HOST
    /\ local_candidates[2].type = SRFLX
    /\ Len(sent) = 3

\* no datagram within the timeout, or one that is shorter than a STUN
\* header, carries another transaction id, or has no whole
\* XOR-MAPPED-ADDRESS attribute
BadReply(r) ==
    \/ r.kind = "timeout"
    \/ r.kind = "datagram" /\ (r.length < 20 \/ ~r.tx_ok \/ r.xma # "ok")

\* C16: when the STUN probe gets no response within its timeout, or a
\* malformed one, gather_candidates completes without raising, the local
\* candidates are HOST candidates only, and the session goes on to the
\* exchange.
C16_StunFailureOnlyHost ==
    BadReply(genv.reply) =>
        /\ Gathered
        /\ est_err # "gather"
        /\ Len(local_candidates) >= 1
        /\ \A i \in 1..Len(local_candidates) : local_candidates[i].type = HOST
        /\ est = "gathered" => ENABLED ExchangeSend

\* the STUN reply carried another transaction id and the HOST candidate
\* has been sent to the remote peer
C16_Witness ==
    /\ genv.reply.kind = "datagram"
    /\ ~genv.reply.tx_ok
    /\ est = "receiving"
    /\ Len(sent) = 2

\* C17: a bind failure on an interface during host gathering is absorbed and
\* does not abort gathering.
C17_BindFailureAbsorbed ==
    genv.unbindable # {} => (Gathered /\ est_err # "gather")

\* C18: every candidate from the remote peer that the signaling channel
\* delivered before the wait ended is in remote_candidates when
\* exchange_candidates returns: none is left unread.
C18_AllDeliveredReceived ==
    (est \in {"exchanged", "returned"} /\ est_err = "none") =>
        \A k \in 1..Len(inbox) :
            ~(/\ inbox[k].type = "ice_candidate"
              /\ inbox[k].from = RemotePeer
              /\ ~FromDictRaises(inbox[k].candidate))

\* C19: if the wait for remote candidates elapses with none received,
\* exchange_candidates returns normally with an empty remote set, pairing
\* yields no pair, and the call ends by returning False, with no pair
\* nominated and no exception.
C19_TimeoutEndsInFailure ==
    timed_out =>
        /\ est \in {"exchanged", "returned"}
        /\ est_err = "none"
        /\ remote_candidates = <<>>
        /\ candidate_pairs = <<>>
        /\ nominated_pair = NoPair
        /\ ret # "True"
        /\ est = "exchanged" => ENABLED SessionNext
        /\ est = "returned" => est_ret = "False"

\* the wait elapsed and establish_connection has returned
C19_Witness ==
    /\ timed_out
    /\ est = "returned"
    /\ pc = "done"
    /\ sent # <<>>

\* C20: establish_connection returns True only if a nominated pair exists
\* whose state is SUCCEEDED; it returns False, raising nothing, when
\* connecting, gathering or exchanging fails or when no pair succeeded; after
\* it returned nothing is tried again.
C20_ExplicitResult ==
    /\ est = "returned" => est_ret \in {"True", "False"}
    /\ est # "returned" => est_ret = NoRet
    /\ est_ret = "True" =>
          /\ est_err = "none"
          /\ nominated_pair.kind = "pair"
          /\ State(nominated_pair.idx) = SUCCEEDED
          /\ candidate_pairs[nominated_pair.idx].nominated
    /\ est_err # "none" => (est = "returned" /\ est_ret = "False")
    /\ (est = "returned" /\ Succeeded = {}) => est_ret = "False"
    /\ est = "returned" => ~ENABLED SessionNext

\* establish_connection returned True after a batch in which a pair failed
C20_Witness ==
    /\ est = "returned"
    /\ est_ret = "True"
    /\ \E k \in Idx : State(k) = FAILED

\* --------------------------------------------------------------- C21, C22
\* an XOR-MAPPED-ADDRESS attribute header at the offset, announcing and
\* followed by at least 8 bytes of value
XmaAt(response, offset) ==
    /\ offset + 12 <= Len(response)
    /\ response[offset + 1] = 0
    /\ response[offset + 2] = 32
    /\ response[offset + 3] * 256 + response[offset + 4] >= 8

Echoes(response, transaction_id) ==
    /\ Len(response) >= 20
    /\ \A i \in 1..12 : response[8 + i] = transaction_id[i]

\* C21: discover_public_address yields an address only from a response that
\* is at least 20 bytes long, echoes the request's transaction id and carries
\* an XOR-MAPPED-ADDRESS attribute of at least 8 bytes; a response with
\* another transaction id, under 20 bytes or with an XOR-MAPPED-ADDRESS value
\* under 8 bytes (announced or present) yields none.
C21_AddressOnlyFromValidResponse ==
    (call.fn = "stun" /\ call.stage = "parsed") =>
        /\ call.result.found =>
              /\ Len(call.response) >= 20
              /\ Echoes(call.response, call.transaction_id)
              /\ \E offset \in 20..Len(call.response) : XmaAt(call.response, offset)
        /\ ~Echoes(call.response, call.transaction_id) => ~call.result.found
        /\ (\A offset \in 20..Len(call.response) : ~XmaAt(call.response, offset))
              => ~call.result.found

\* a whole binding response that carries another transaction id was parsed
C21_Witness ==
    /\ call.fn = "stun"
    /\ call.stage = "parsed"
    /\ call.origin = "other"
    /\ Len(call.response) > 32
    /\ ~Echoes(call.response, call.transaction_id)
    /\ \E offset \in 20..Len(call.response) : XmaAt(call.response, offset)

\* C22: for the address and port the server observed, the client's parse of
\* the server's binding response returns exactly that address and port, and
\* the response echoes the request's transaction id.
C22_XorRoundTrip ==
    (call.fn = "stun" /\ call.stage = "parsed" /\ call.origin = "server") =>
        /\ call.result.found
        /\ call.result.address = call.client_addr.ip
        /\ call.result.port = call.client_addr.port
        /\ Echoes(call.response, call.transaction_id)

\* the round trip of 255.255.255.255:65535, every bit set
C22_Witness ==
    /\ call.fn = "stun"
    /\ call.stage = "parsed"
    /\ call.origin = "server"
    /\ call.client_addr.ip = <<255, 255, 255, 255>>
    /\ call.client_addr.port = 65535

\* ------------------------------------------------------------- C23 to C27
\* C23: in every reachable state, also after run_connectivity_checks has run
\* more than once on the same pair set, at most one pair holds nominated=true
\* and every pair holding nominated=true is in state SUCCEEDED.
C23_OneNominatedAndSucceeded ==
    /\ Cardinality(Nominated) <= 1
    /\ \A i \in Nominated : State(i) = SUCCEEDED

\* C24: a probe of pair p changes only p's state field: the other pairs, p's
\* nominated flag, p's priority and candidates, nominated_pair and the two
\* candidate lists are as before, at the probe's start and at its end.
C24_ProbeFrame ==
    [][(started' = started + 1 \/ (~probe.done /\ probe'.done /\ pc = "gather"))
        => /\ local_candidates' = local_candidates
           /\ remote_candidates' = remote_candidates
           /\ nominated_pair' = nominated_pair
           /\ Len(candidate_pairs') = Len(candidate_pairs)
           /\ \A i \in Idx :
                 IF i = probe'.pair
                 THEN candidate_pairs'[i] =
                        [candidate_pairs[i] EXCEPT !.state = candidate_pairs'[i].state]
                 ELSE candidate_pairs'[i] = candidate_pairs[i]]_vars

\* a probe has ended SUCCEEDED beside a pair an earlier probe left FAILED,
\* and neither is flagged
C24_Witness ==
    /\ pc = "gather"
    /\ probe.pair # 0
    /\ probe.done
    /\ State(probe.pair) = SUCCEEDED
    /\ ~candidate_pairs[probe.pair].nominated
    /\ nominated_pair = NoPair
    /\ \E i \in Idx : State(i) = FAILED

C27_BatchTerminates ==
    (pc = "gather") ~>
        (/\ pc = "done"
         /\ ret \in {"True", "False"}
         /\ \A k \in 1..Len(check_tasks) :
               State(check_tasks[k]) \in {SUCCEEDED, FAILED}
         /\ \A i \in Idx : State(i) \notin {WAITING, IN_PROGRESS})

\* a batch of three probes that all timed out has returned False
C27_Witness ==
    /\ pc = "done"
    /\ ret = "False"
    /\ Len(check_tasks) = 3
    /\ \A k \in 1..3 : State(check_tasks[k]) = FAILED
    /\ probe = NoProbe

\* -------------------------------------------------------------------- C30
\* the order of (min priority, max priority, tie-break) triples, first
\* component first
LexLess(l1, r1, l2, r2) ==
    LET G1 == PyMin(l1, r1)
        D1 == PyMax(l1, r1)
        G2 == PyMin(l2, r2)
        D2 == PyMax(l2, r2)
        t1 == IF BigLess(r1, l1) THEN 1 ELSE 0
        t2 == IF BigLess(r2, l2) THEN 1 ELSE 0
    IN  \/ BigLess(G1, G2)
        \/ G1 = G2 /\ BigLess(D1, D2)
        \/ G1 = G2 /\ D1 = D2 /\ t1 < t2

\* C30: for candidate priorities produced by calculate_priority, the
\* candidate priority fits in 32 bits (and is below 2^31), the pair priority
\* fits in 64 bits, and pairs are ordered as their (min priority, max
\* priority, tie-break) triples are: a pair with the greater minimum always
\* has the greater pair priority.
C30_FitsAndLexicographic ==
    pc = "paired" =>
        /\ \A k \in Idx :
              LET l == Local(candidate_pairs[k]).priority
                  r == Remote(candidate_pairs[k]).priority
                  p == candidate_pairs[k].priority
              IN  /\ Below31(l) /\ Below31(r)
                  /\ \A n \in 3..5 : l[n] = 0 /\ r[n] = 0
                  /\ p[5] = 0
        /\ \A k1, k2 \in Idx :
              LET l1 == Local(candidate_pairs[k1]).priority
                  r1 == Remote(candidate_pairs[k1]).priority
                  l2 == Local(candidate_pairs[k2]).priority
                  r2 == Remote(candidate_pairs[k2]).priority
                  p1 == candidate_pairs[k1].priority
                  p2 == candidate_pairs[k2].priority
              IN  /\ LexLess(l1, r1, l2, r2) <=> BigLess(p1, p2)
                  /\ BigLess(PyMin(l1, r1), PyMin(l2, r2)) => BigLess(p1, p2)

\* a pair of the two highest priorities next to a pair whose minimum is the
\* lowest priority and whose maximum is the highest
C30_Witness ==
    /\ pc = "paired"
    /\ \E k1, k2 \in Idx :
          /\ Local(candidate_pairs[k1]).priority = Big(calculate_priority(RELAY, 0, 1))
          /\ Remote(candidate_pairs[k1]).priority = Big(calculate_priority(RELAY, 0, 1))
          /\ Local(candidate_pairs[k2]).priority = Big(calculate_priority(RELAY, 0, 256))
          /\ Remote(candidate_pairs[k2]).priority = Big(calculate_priority(HOST, 65535, 1))
          /\ BigLess(candidate_pairs[k2].priority, candidate_pairs[k1].priority)

\* -------------------------------------------------------------------- C26
\* a batch runs from the first step of its run_connectivity_checks call to
\* that call's return
BatchRunning(t) == loop.batch[t].stage = "gather"

\* the part of C26 that holds: a probe never awaits, so no second probe
\* begins before it has returned
NoTwoProbesInFlight ==
    loop.batch # <<>> => Len(loop.running) <= 1

\* C26: when run_connectivity_checks is invoked from two tasks of the same
\* session, two batches never overlap (only one batch runs at a time), and no
\* pair has two probes in flight.
C26_BatchesNeverOverlap ==
    loop.batch # <<>> =>
        /\ ~(BatchRunning(1) /\ BatchRunning(2))
        /\ Len(loop.running) <= 1

\* --------------------------------------------------------------- C28, C29
Relayed == 1..Len(server.relayed)
SentTo(c, type, id) ==
    \E i \in 1..Len(server.conns[c].out) :
        server.conns[c].out[i].type = type /\ server.conns[c].out[i].id = id

C29_CloseRemovesOnlyOwn ==
    [][ /\ \A n \in Names :
              server'.peers[n] # NoConn => IsOpen(server'.conns, server'.peers[n])
        /\ \A c \in Conns :
              (IsOpen(server.conns, c) /\ ~IsOpen(server'.conns, c))
              => \A n \in Names :
                    server.peers[n] # c => server'.peers[n] = server.peers[n]]_vars

====
